---------------------------- MODULE Spec2Model ----------------------------
(***************************************************************************)
(* Model of src/botVGC.py: the doubles decision engine                     *)
(* VGCHeuristicsRandom (move classification, single-target and spread      *)
(* scoring, the ally safety oracle, the per-opponent series memory and the *)
(* choose_move orchestrator).                                              *)
(*                                                                         *)
(* Python floats are modelled as exact non-negative rationals [n, d] in    *)
(* lowest terms; pokemon and moves are named by identifiers whose fields   *)
(* are looked up in the tables MonData and MoveData.                       *)
(***************************************************************************)
EXTENDS Integers, Sequences, FiniteSets, TLC

VARIABLES
    pc,                  \* position of choose_move: idle, slot0, slot1, ensure, done
    battle,              \* the battle snapshot handed to the running choose_move
    series_memory,       \* self.series_memory: opponent key -> flags
    prefer_target_slot,  \* self._prefer_target_slot
    me_list,             \* local me_list of choose_move
    opp_list,            \* local opp_list of choose_move
    orders,              \* local orders of choose_move
    cands,               \* candidate lists built by _best_move_and_target, per block
    best,                \* tuples returned by _best_move_and_target, per block
    result,              \* value returned by choose_move
    last_op              \* the last operation that acted, with its inputs

vars == <<pc, battle, series_memory, prefer_target_slot, me_list, opp_list,
          orders, cands, best, result, last_op>>

None == "None"

-----------------------------------------------------------------------------
\* Exact rationals standing for the floats of the code.

RECURSIVE GCD(_, _)
GCD(a, b) == IF b = 0 THEN a ELSE GCD(b, a % b)

Reduce(n, d, g) == [n |-> n \div g, d |-> d \div g]
Rat(n, d) == Reduce(n, d, GCD(n, d))
RInt(k) == [n |-> k, d |-> 1]
RZero == RInt(0)
RMul(x, y) == Rat(x.n * y.n, x.d * y.d)
RAdd(x, y) == Rat(x.n * y.d + y.n * x.d, x.d * y.d)
RGt(x, y) == x.n * y.d > y.n * x.d
RGe(x, y) == x.n * y.d >= y.n * x.d
RPos(x) == x.n > 0

-----------------------------------------------------------------------------
\* Identifier sets of the configuration block.

SETUP_IDS == {"swordsdance", "nastyplot", "calmmind", "quiverdance", "bulkup"}
PROTECT_IDS == {"protect", "detect", "spikyshield", "kingsshield", "banefulbunker", "silktrap"}
SPEED_CTRL == {"trickroom", "tailwind", "icywind", "electroweb"}
REDIRECT_IDS == {"followme", "ragepowder"}
PIVOT_IDS == {"uturn", "voltswitch", "flipturn", "partingshot", "teleport"}
WIDE_GUARD_IDS == {"wideguard"}
SPREAD_HINTS ==
    {"earthquake", "bulldoze", "rockslide", "dazzlinggleam", "heatwave",
     "snarl", "muddywater", "eruption", "blizzard", "discharge", "hypervoice",
     "sludgewave", "water_spout", "makeitrain", "glaciallance", "originpulse",
     "precipiceblades", "astralbarrage"}
AOE_FRIENDLY_FIRE ==
    {"earthquake", "bulldoze", "eruption", "water_spout", "surf", "discharge",
     "sludgewave", "explosion", "selfdestruct"}
HARMFUL_ALLY_SINGLES == {"beatup"}
SPREAD_DAMAGE_MOD == Rat(75, 100)

-----------------------------------------------------------------------------
\* The battle objects the code reads.  Moves: id, type, base_power, accuracy
\* (percent, 0 for "always hits"), category, raw target, recharge flag.

Mv(ty, bp, ac, cat, tg, rc) ==
    [type |-> ty, base_power |-> bp, accuracy |-> ac, category |-> cat,
     target |-> tg, recharge |-> rc]

MoveData ==
    [id \in {"earthquake", "thunderbolt", "protect", "hypervoice", "surf",
             "discharge", "shadowball", "hyperbeam", "thunderwave",
             "swordsdance", "tailwind", "helpinghand", "bulkup", "nastyplot",
             "calmmind", "quiverdance"} |->
      CASE id = "earthquake"  -> Mv("Ground", 100, 100, "physical", "allAdjacent", FALSE)
        [] id = "thunderbolt" -> Mv("Electric", 90, 100, "special", "normal", FALSE)
        [] id = "protect"     -> Mv("Normal", 0, 0, "status", "self", FALSE)
        [] id = "hypervoice"  -> Mv("Normal", 90, 100, "special", "allAdjacentFoes", FALSE)
        [] id = "surf"        -> Mv("Water", 90, 100, "special", "allAdjacent", FALSE)
        [] id = "discharge"   -> Mv("Electric", 80, 100, "special", "allAdjacent", FALSE)
        [] id = "shadowball"  -> Mv("Ghost", 80, 100, "special", "normal", FALSE)
        [] id = "hyperbeam"   -> Mv("Normal", 150, 90, "special", "normal", TRUE)
        [] id = "thunderwave" -> Mv("Electric", 0, 90, "status", "normal", FALSE)
        [] id = "swordsdance" -> Mv("Normal", 0, 0, "status", "self", FALSE)
        [] id = "tailwind"    -> Mv("Flying", 0, 0, "status", "allySide", FALSE)
        [] id = "helpinghand" -> Mv("Normal", 0, 0, "status", "adjacentAlly", FALSE)
        [] id = "bulkup"      -> Mv("Fighting", 0, 0, "status", "self", FALSE)
        [] id = "nastyplot"   -> Mv("Dark", 0, 0, "status", "self", FALSE)
        [] id = "calmmind"    -> Mv("Psychic", 0, 0, "status", "self", FALSE)
        [] id = "quiverdance" -> Mv("Bug", 0, 0, "status", "self", FALSE)]

\* Pokemon: types, boosts, status, ability, item, hp (percent), fainted flag
\* and the id of the last move used.
Mon(ty, atk, spa, spe, st, ab, it, hp, fnt, lm) ==
    [types |-> ty, atk |-> atk, spa |-> spa, spe |-> spe, status |-> st,
     ability |-> ab, item |-> it, current_hp_fraction |-> hp, fainted |-> fnt,
     last_move |-> lm]

\* The stat stages the client reports run from -MaxStage to MaxStage.
MaxStage == 6

Stages == (-MaxStage)..MaxStage

\* A setup user observed with attack stage a and special-attack stage b.
StagedId(a, b) == "smeargle:" \o ToString(a) \o ":" \o ToString(b)

StagedIds == {StagedId(a, b) : a \in Stages, b \in Stages}

\* The boosts (atk, spa) of a setup user.
StagesOf(id) == CHOOSE p \in Stages \X Stages : StagedId(p[1], p[2]) = id

StagedMon(p) == Mon({"Normal"}, p[1], p[2], 0, None, "owntempo", "", 100, FALSE, None)

MonData ==
    [id \in {"snorlax", "rotom", "garchomp", "pelipper", "gengar", "downed"}
             \cup StagedIds |->
      CASE id \in StagedIds -> StagedMon(StagesOf(id))
        [] id = "snorlax"  -> Mon({"Normal"}, 0, 0, 0, None, "thickfat", "leftovers", 100, FALSE, None)
        [] id = "rotom"    -> Mon({"Electric", "Ghost"}, 0, 0, 0, None, "levitate", "", 100, FALSE, None)
        [] id = "garchomp" -> Mon({"Ground"}, 0, 0, 0, None, "roughskin", "", 100, FALSE, "protect")
        [] id = "pelipper" -> Mon({"Water", "Flying"}, 0, 0, 0, None, "drizzle", "", 30, FALSE, None)
        [] id = "gengar"   -> Mon({"Ghost"}, 0, 0, 0, None, "cursedbody", "", 100, FALSE, None)
        [] id = "downed"   -> Mon({"Normal"}, 0, 0, 0, None, "", "", 0, TRUE, None)]

\* The slice of the generation's type chart the tables above use, times 4.
TypeMult4(atk, def) ==
    CASE atk = "Normal"   -> (IF def = "Ghost" THEN 0 ELSE 4)
      [] atk = "Ghost"    -> (IF def = "Normal" THEN 0 ELSE IF def = "Ghost" THEN 8 ELSE 4)
      [] atk = "Ground"   -> (IF def = "Flying" THEN 0 ELSE IF def = "Electric" THEN 8 ELSE 4)
      [] atk = "Flying"   -> (IF def = "Electric" THEN 2 ELSE 4)
      [] atk = "Electric" -> (IF def = "Ground" THEN 0
                              ELSE IF def \in {"Flying", "Water"} THEN 8
                              ELSE IF def = "Electric" THEN 2 ELSE 4)
      [] atk = "Water"    -> (IF def = "Ground" THEN 8 ELSE IF def = "Water" THEN 2 ELSE 4)

RECURSIVE damage_multiplier(_, _)
damage_multiplier(atk, types) ==
    IF types = {} THEN RInt(1)
    ELSE LET t == CHOOSE x \in types : TRUE
         IN RMul(Rat(TypeMult4(atk, t), 4), damage_multiplier(atk, types \ {t}))

-----------------------------------------------------------------------------
\* Type and stage utilities.

\* str.lower() on the strings the tables use.
Lower(s) ==
    CASE s = "allAdjacent" -> "alladjacent"
      [] s = "allAdjacentFoes" -> "alladjacentfoes"
      [] s = "allySide" -> "allyside"
      [] s = "adjacentAlly" -> "adjacentally"
      [] s = "adjacentFoe" -> "adjacentfoe"
      [] OTHER -> s

eff(atk_type, defender) ==
    IF atk_type = None \/ defender = None THEN RInt(1)
    ELSE damage_multiplier(atk_type, MonData[defender].types)

stab(move, attacker) ==
    IF MoveData[move].type # None /\ attacker # None
       /\ MoveData[move].type \in MonData[attacker].types
    THEN Rat(3, 2) ELSE RInt(1)

acc(move) ==
    IF MoveData[move].accuracy = 0 THEN RInt(1) ELSE Rat(MoveData[move].accuracy, 100)

target_str(move) ==
    IF MoveData[move].target = None THEN "" ELSE Lower(MoveData[move].target)

is_spread(move) ==
    \/ Lower(move) \in SPREAD_HINTS
    \/ target_str(move) \in {"alladjacentfoes", "alladjacent", "all", "foes"}

requires_explicit_target(move) ==
    IF is_spread(move) THEN FALSE
    ELSE IF target_str(move) \in {"self", "ally", "allyteam", "allyside", "foeside",
                                  "allies", "randomnormal"} THEN FALSE
    ELSE target_str(move) \in {"normal", "adjacentfoe", "adjacentally", "any"}

is_physical(move) == MoveData[move].category = "physical"
is_special(move) == MoveData[move].category = "special"

stage_mod(stage) ==
    Rat(2 + (IF stage > 0 THEN stage ELSE 0), IF stage >= 0 THEN 2 ELSE 2 - stage)

atk_mult(me, move) ==
    IF is_physical(move)
    THEN RMul(stage_mod(MonData[me].atk),
              IF MonData[me].status = "brn" THEN Rat(65, 100) ELSE RInt(1))
    ELSE IF is_special(move) THEN stage_mod(MonData[me].spa)
    ELSE RInt(1)

-----------------------------------------------------------------------------
\* Slot helpers.

\* "k in mid" on the move ids of the tables: no id of MoveData contains
\* another identifier as a proper substring.
HasSub(k, mid) == k = mid

slot_index(b, me) ==
    IF \E i \in 1..2 : b.active_pokemon[i] = me
    THEN (CHOOSE i \in 1..2 : b.active_pokemon[i] = me
                              /\ \A j \in 1..(i - 1) : b.active_pokemon[j] # me) - 1
    ELSE 0

moves_for_slot(b, slot) ==
    IF slot < Len(b.available_moves) THEN b.available_moves[slot + 1] ELSE <<>>

-----------------------------------------------------------------------------
\* Series memory.

OppKey(b) == IF b.opponent_username \in {None, ""} THEN "_unknown_" ELSE b.opponent_username

NewMem == [protect |-> FALSE, speed_ctrl |-> FALSE]

\* self.series_memory after _get_series_mem(battle)
get_series_mem(memory, b) ==
    IF OppKey(b) \in DOMAIN memory THEN memory
    ELSE [k \in DOMAIN memory \cup {OppKey(b)} |->
            IF k = OppKey(b) THEN NewMem ELSE memory[k]]

\* Mutant of MemAfterMon: the flags are assigned from the pokemon at hand instead
\* of only ever being set.
MemAfterMon_Overwrite(mem, moves) ==
    IF moves = {} THEN mem
    ELSE [protect |-> moves \cap PROTECT_IDS # {},
          speed_ctrl |-> moves \cap SPEED_CTRL # {}]

\* The record one pokemon of opponent_team contributes to mem.
MemAfterMon(mem, moves) ==
    IF moves = {} THEN mem
    ELSE [protect |-> mem.protect \/ (moves \cap PROTECT_IDS # {}),
          speed_ctrl |-> mem.speed_ctrl \/ (moves \cap SPEED_CTRL # {})]

RECURSIVE MemAfterTeam(_, _)
MemAfterTeam(mem, team) ==
    IF team = <<>> THEN mem
    ELSE MemAfterTeam(MemAfterMon(mem, Head(team)), Tail(team))

\* self.series_memory after _update_series_mem_from_battle, the loop over
\* opponent_team having completed n of its iterations.
update_series_mem_from_battle(memory, b, n) ==
    [get_series_mem(memory, b) EXCEPT
        ![OppKey(b)] = MemAfterTeam(@, SubSeq(b.opponent_team, 1, n))]

-----------------------------------------------------------------------------
\* Score adjustments.

protect_risk_factor(target) ==
    IF target # None /\ MonData[target].last_move # None
       /\ Lower(MonData[target].last_move) \in PROTECT_IDS
    THEN Rat(6, 10) ELSE RInt(1)

Max0(x) == IF x > 0 THEN x ELSE 0

\* need of the setup branch.
SetupNeed(mid, me) ==
    IF HasSub("swordsdance", mid) \/ HasSub("bulkup", mid) THEN -MonData[me].atk
    ELSE IF \E k \in {"nastyplot", "calmmind", "quiverdance"} : HasSub(k, mid)
    THEN -MonData[me].spa
    ELSE 0

\* The branch of _move_score_vs_single for moves without base power.
UtilityScore(mid, me, mem) ==
    IF \E k \in SETUP_IDS : HasSub(k, mid)
    THEN RAdd(RInt(26), RMul(Rat(3, 2), RInt(Max0(SetupNeed(mid, me)))))
    ELSE IF \E k \in SPEED_CTRL : HasSub(k, mid)
    THEN RAdd(RInt(32),
              RMul(RInt(3), RInt(Max0(-MonData[me].spe
                                      + (IF MonData[me].status = "par" THEN 1 ELSE 0)))))
    ELSE IF mid \in REDIRECT_IDS THEN RInt(28)
    ELSE IF mid \in PROTECT_IDS THEN RAdd(RInt(28), IF mem.protect THEN RInt(3) ELSE RZero)
    ELSE IF mid \in WIDE_GUARD_IDS THEN RInt(27)
    ELSE IF mid \in PIVOT_IDS
    THEN RAdd(RInt(12), IF MonData[me].atk <= -2 \/ MonData[me].spa <= -2
                        THEN RInt(3) ELSE RZero)
    ELSE RInt(4)

\* base_power * stab * eff * acc * atk_mult
BaseDamage(move, me, e) ==
    RMul(RMul(RMul(RMul(RInt(MoveData[move].base_power), stab(move, me)), e), acc(move)),
         atk_mult(me, move))

\* The super-effective bonus: hi percent for eff >= 4, lo percent for eff >= 2.
EffBonus(e, s, hi, lo) ==
    IF RGe(e, RInt(4)) THEN RMul(s, Rat(hi, 100))
    ELSE IF RGe(e, RInt(2)) THEN RMul(s, Rat(lo, 100))
    ELSE s

\* The bonus against a target under 35% hp.
LowHpBonus(target, s, pct) ==
    IF target # None /\ MonData[target].current_hp_fraction < 35
    THEN RMul(s, Rat(pct, 100)) ELSE s

RechargePenalty(move, s) ==
    IF MoveData[move].recharge \/ HasSub("hyperbeam", Lower(move))
    THEN RMul(s, Rat(7, 10)) ELSE s

\* The attack branch of _move_score_vs_single, e the effectiveness on target.
AttackScore(move, me, target, e) ==
    IF e.n = 0 THEN RZero
    ELSE RMul(RechargePenalty(move,
                  LowHpBonus(target, EffBonus(e, BaseDamage(move, me, e), 120, 112), 115)),
              protect_risk_factor(target))

move_score_vs_single(move, me, target, mem) ==
    IF move = None THEN RZero
    ELSE IF target_str(move) \in {"adjacentally", "ally", "any"}
            /\ MoveData[move].base_power > 0 /\ Lower(move) \in HARMFUL_ALLY_SINGLES
    THEN RZero
    ELSE IF MoveData[move].base_power = 0 THEN UtilityScore(Lower(move), me, mem)
    ELSE AttackScore(move, me, target, eff(MoveData[move].type, target))

IsLive(o) == o # None /\ ~MonData[o].fainted

\* One iteration of the loop of _move_score_spread, e the effectiveness on t.
SpreadPartOf(move, me, t, e) ==
    IF e.n = 0 THEN RZero
    ELSE RMul(LowHpBonus(t, EffBonus(e, BaseDamage(move, me, e), 112, 106), 110),
              protect_risk_factor(t))

SpreadPart(move, me, t) == SpreadPartOf(move, me, t, eff(MoveData[move].type, t))

RECURSIVE SpreadTotal(_, _, _)
SpreadTotal(move, me, live) ==
    IF live = <<>> THEN RZero
    ELSE RAdd(SpreadPart(move, me, Head(live)), SpreadTotal(move, me, Tail(live)))

\* The rules of _ally_safe_for_aoe that follow the telepathy test.
AoeRule(mid, types, ability, item) ==
    IF mid \in {"earthquake", "bulldoze"}
    THEN "Flying" \in types \/ ability \in {"levitate"} \/ item = "airballoon"
    ELSE IF mid \in {"explosion", "selfdestruct"} THEN "Ghost" \in types
    ELSE IF mid = "discharge"
    THEN "Ground" \in types \/ ability \in {"voltabsorb", "lightningrod"}
    ELSE IF mid \in {"surf", "water_spout"} THEN ability \in {"waterabsorb", "dryskin"}
    ELSE IF mid \in {"heatwave", "eruption"} THEN ability \in {"flashfire"}
    ELSE FALSE

ally_safe_for_aoe(move_id, move_type, ally) ==
    IF ally = None THEN TRUE
    ELSE IF Lower(MonData[ally].ability) = "telepathy" THEN TRUE
    ELSE AoeRule(Lower(move_id), MonData[ally].types, Lower(MonData[ally].ability),
                 Lower(MonData[ally].item))

\* Mutant of FriendlyFire: the penalty is applied without consulting the oracle.
FriendlyFire_NoOracle(move, ally, live_opps, total) ==
    IF Lower(move) \in AOE_FRIENDLY_FIRE /\ ally # None /\ Len(live_opps) >= 1
    THEN RMul(total, Rat(20, 100)) ELSE total

\* The friendly-fire penalty on the sum over the live opponents.
FriendlyFire(move, ally, live_opps, total) ==
    IF Lower(move) \in AOE_FRIENDLY_FIRE /\ ally # None /\ Len(live_opps) >= 1
       /\ ~ally_safe_for_aoe(Lower(move), MoveData[move].type, ally)
    THEN RMul(total, Rat(20, 100)) ELSE total

SpreadScore(move, me, live_opps, ally) ==
    RMul(RMul(FriendlyFire(move, ally, live_opps, SpreadTotal(move, me, live_opps)),
              SPREAD_DAMAGE_MOD),
         Rat(103, 100))

move_score_spread(move, me, opps, mem, ally) ==
    IF move = None THEN RZero ELSE SpreadScore(move, me, SelectSeq(opps, IsLive), ally)

-----------------------------------------------------------------------------
\* Choice of the best move and target.

NoSlot == 0

Cand(s, m, ps, why) == [s |-> s, m |-> m, ps |-> ps, why |-> why]

\* Mutant of AddCand: the candidate is appended whatever its score.
AddCand_NoFilter(c, rest) == <<c>> \o rest

\* if s > 0: candidates.append(c)
AddCand(c, rest) == IF RPos(c.s) THEN <<c>> \o rest ELSE rest

RECURSIVE SpreadCands(_, _, _, _, _)
SpreadCands(moves, me, opps, mem, ally) ==
    IF moves = <<>> THEN <<>>
    ELSE IF is_spread(Head(moves))
    THEN AddCand(Cand(move_score_spread(Head(moves), me, opps, mem, ally),
                      Head(moves), 0, "spread"),
                 SpreadCands(Tail(moves), me, opps, mem, ally))
    ELSE SpreadCands(Tail(moves), me, opps, mem, ally)

\* tmap: the live opponents paired with the target index the order will carry.
TMap(live_opps) ==
    IF Len(live_opps) > 1 THEN <<<<live_opps[1], 1>>, <<live_opps[2], 2>>>>
    ELSE <<<<live_opps[1], 1>>>>

\* if prefer_slot and ps == prefer_slot: s *= 1.20
Focus(s, ps, prefer_slot) ==
    IF prefer_slot # NoSlot /\ ps = prefer_slot THEN RMul(s, Rat(120, 100)) ELSE s

RECURSIVE TargetCands(_, _, _, _, _)
TargetCands(m, me, tmap, mem, prefer_slot) ==
    IF tmap = <<>> THEN <<>>
    ELSE AddCand(Cand(Focus(move_score_vs_single(m, me, Head(tmap)[1], mem),
                            Head(tmap)[2], prefer_slot),
                      m, Head(tmap)[2], "single"),
                 TargetCands(m, me, Tail(tmap), mem, prefer_slot))

RECURSIVE SingleCands(_, _, _, _, _)
SingleCands(moves, me, tmap, mem, prefer_slot) ==
    IF moves = <<>> THEN <<>>
    ELSE IF is_spread(Head(moves))
    THEN SingleCands(Tail(moves), me, tmap, mem, prefer_slot)
    ELSE TargetCands(Head(moves), me, tmap, mem, prefer_slot)
         \o SingleCands(Tail(moves), me, tmap, mem, prefer_slot)

CandidatesOf(my_moves, live_opps, me, opps, mem, ally, prefer_slot) ==
    IF me = None \/ my_moves = <<>> \/ live_opps = <<>> THEN <<>>
    ELSE SpreadCands(my_moves, me, opps, mem, ally)
         \o SingleCands(my_moves, me, TMap(live_opps), mem, prefer_slot)

\* The list candidates of _best_move_and_target (empty on its early returns).
candidates(b, me, opps, mem, ally, prefer_slot) ==
    CandidatesOf(moves_for_slot(b, slot_index(b, me)), SelectSeq(opps, IsLive),
                 me, opps, mem, ally, prefer_slot)

\* Mutant of InsertDesc: a sort that puts a later candidate before its equals.
RECURSIVE InsertDesc_Unstable(_, _)
InsertDesc_Unstable(sorted, x) ==
    IF sorted = <<>> THEN <<x>>
    ELSE IF RGt(Head(sorted).s, x.s)
    THEN <<Head(sorted)>> \o InsertDesc_Unstable(Tail(sorted), x)
    ELSE <<x>> \o sorted

\* candidates.sort(key=score, reverse=True): a stable sort.
RECURSIVE InsertDesc(_, _)
InsertDesc(sorted, x) ==
    IF sorted = <<>> THEN <<x>>
    ELSE IF RGe(Head(sorted).s, x.s) THEN <<Head(sorted)>> \o InsertDesc(Tail(sorted), x)
    ELSE <<x>> \o sorted

RECURSIVE SortDesc(_, _)
SortDesc(done, todo) ==
    IF todo = <<>> THEN done ELSE SortDesc(InsertDesc(done, Head(todo)), Tail(todo))

\* The tuple _best_move_and_target returns, cs its candidate list.
BestOf(my_moves, live_opps, me, cs) ==
    IF me = None \/ my_moves = <<>> THEN Cand(RZero, None, 0, "no-moves")
    ELSE IF live_opps = <<>> THEN Cand(RZero, None, 0, "no-opps")
    ELSE IF cs = <<>> THEN Cand(RZero, None, 0, "no-cands")
    ELSE Head(SortDesc(<<>>, cs))

best_move_and_target(b, me, opps, mem, ally, prefer_slot) ==
    BestOf(moves_for_slot(b, slot_index(b, me)), SelectSeq(opps, IsLive), me,
           candidates(b, me, opps, mem, ally, prefer_slot))

-----------------------------------------------------------------------------
\* choose_move.

Order(m, t) == [move |-> m, target |-> t]
create_order(m) == Order(m, 0)
NoOrder == Order(None, 0)
NoBest == [s |-> RZero, m |-> None, ps |-> 0, why |-> "not-evaluated"]
NoResult == [kind |-> "none", first |-> NoOrder, second |-> NoOrder]

RandomResult == [kind |-> "random", first |-> NoOrder, second |-> NoOrder]
DoubleBattleOrder(o1, o2) == [kind |-> "double", first |-> o1, second |-> o2]

IsMon(p) == p # None

IsAttack(m) == MoveData[m].base_power > 0
IsSingleAttack(m) == MoveData[m].base_power > 0 /\ ~is_spread(m)

FirstOr(a, b) == IF a # <<>> THEN Head(a) ELSE IF b # <<>> THEN Head(b) ELSE None

\* The fallback move of a block: next(... not spread ...), then next(...).
FallbackMove(slot_moves) ==
    FirstOr(SelectSeq(slot_moves, IsSingleAttack), SelectSeq(slot_moves, IsAttack))

FallbackOrder(mv) == IF mv # None THEN create_order(mv) ELSE NoOrder

\* The order block k stores for the tuple bst; NoOrder when the block returns the
\* random choice.
BlockOrder(b, k, bst) ==
    IF bst.m # None
    THEN IF requires_explicit_target(bst.m) /\ bst.ps \in {1, 2}
         THEN Order(bst.m, bst.ps) ELSE create_order(bst.m)
    ELSE FallbackOrder(FallbackMove(moves_for_slot(b, k)))

\* self._prefer_target_slot after the slot 0 block.
PreferAfterSlot0(bst, before) ==
    IF bst.m # None /\ requires_explicit_target(bst.m) /\ bst.ps \in {1, 2}
    THEN bst.ps ELSE before

\* Mutant of PreferAtStart: the preferred slot of the previous turn is kept.
PreferAtStart_Keep(before) == before

\* self._prefer_target_slot = None at the start of choose_move.
PreferAtStart(before) == NoSlot

NoLocals ==
    /\ me_list' = <<>>
    /\ opp_list' = <<>>
    /\ orders' = <<NoOrder, NoOrder>>
    /\ cands' = <<<<>>, <<>>>>
    /\ best' = <<NoBest, NoBest>>

Begin(b) ==
    /\ pc = "idle"
    /\ battle' = b
    /\ series_memory' = get_series_mem(series_memory, b)
    /\ prefer_target_slot' = PreferAtStart(prefer_target_slot)
    /\ me_list' = SelectSeq(b.active_pokemon, IsMon)
    /\ opp_list' = SelectSeq(b.opponent_active_pokemon, IsMon)
    /\ orders' = <<NoOrder, NoOrder>>
    /\ cands' = <<<<>>, <<>>>>
    /\ best' = <<NoBest, NoBest>>
    /\ IF Len(SelectSeq(b.active_pokemon, IsMon)) = 0
       THEN pc' = "done" /\ result' = RandomResult
       ELSE pc' = "slot0" /\ result' = NoResult
    /\ last_op' = [op |-> "choose_move", key |-> OppKey(b), team |-> <<>>]

\* mem of choose_move.
Mem == series_memory[OppKey(battle)]

\* A block stores its order, or returns the random choice when it has none.
StoreOrder(i, ord, next_pc) ==
    /\ orders' = [orders EXCEPT ![i] = ord]
    /\ IF ord = NoOrder
       THEN pc' = "done" /\ result' = RandomResult
       ELSE pc' = next_pc /\ result' = NoResult

Slot0Step(bst, cs) ==
    /\ cands' = [cands EXCEPT ![1] = cs]
    /\ best' = [best EXCEPT ![1] = bst]
    /\ prefer_target_slot' = PreferAfterSlot0(bst, prefer_target_slot)
    /\ StoreOrder(1, BlockOrder(battle, 0, bst), "slot1")

Ally1 == IF Len(me_list) > 1 THEN me_list[2] ELSE None

Slot0 ==
    /\ pc = "slot0"
    /\ Slot0Step(best_move_and_target(battle, me_list[1], opp_list, Mem, Ally1, NoSlot),
                 candidates(battle, me_list[1], opp_list, Mem, Ally1, NoSlot))
    /\ UNCHANGED <<battle, series_memory, me_list, opp_list, last_op>>

Slot1Step(bst, cs) ==
    /\ cands' = [cands EXCEPT ![2] = cs]
    /\ best' = [best EXCEPT ![2] = bst]
    /\ StoreOrder(2, BlockOrder(battle, 1, bst), "ensure")

Slot1 ==
    /\ pc = "slot1"
    /\ IF Len(me_list) > 1
       THEN Slot1Step(best_move_and_target(battle, me_list[2], opp_list, Mem, me_list[1],
                                           prefer_target_slot),
                      candidates(battle, me_list[2], opp_list, Mem, me_list[1],
                                 prefer_target_slot))
       ELSE /\ pc' = "ensure"
            /\ UNCHANGED <<cands, best, orders, result>>
    /\ UNCHANGED <<battle, series_memory, prefer_target_slot, me_list, opp_list, last_op>>

\* Mutant of EnsureResult: the double order is built without the check.
EnsureResult_NoCheck(ords) == DoubleBattleOrder(ords[1], ords[2])

\* "Asegura dos ordenes" and the return of the double order.
EnsureResult(ords) ==
    IF \E i \in 1..2 : ords[i] = NoOrder THEN RandomResult
    ELSE DoubleBattleOrder(ords[1], ords[2])

Ensure ==
    /\ pc = "ensure"
    /\ result' = EnsureResult(orders)
    /\ pc' = "done"
    /\ UNCHANGED <<battle, series_memory, prefer_target_slot, me_list, opp_list,
                   orders, cands, best, last_op>>

\* An exception raised inside the try block: the handler returns the random choice.
Raise ==
    /\ pc \in {"slot0", "slot1", "ensure"}
    /\ pc' = "done"
    /\ result' = RandomResult
    /\ NoLocals
    /\ last_op' = [op |-> "raise", key |-> OppKey(battle), team |-> <<>>]
    /\ UNCHANGED <<battle, series_memory, prefer_target_slot>>

NoBattle ==
    [opponent_username |-> None, active_pokemon |-> <<None, None>>,
     opponent_active_pokemon |-> <<None, None>>, available_moves |-> <<<<>>, <<>>>>,
     opponent_team |-> <<>>]

\* choose_move hands its order back to the client.
Return ==
    /\ pc = "done"
    /\ pc' = "idle"
    /\ battle' = NoBattle
    /\ result' = NoResult
    /\ NoLocals
    /\ last_op' = [op |-> "return", key |-> None, team |-> <<>>]
    /\ UNCHANGED <<series_memory, prefer_target_slot>>

\* _battle_finished_callback; n < Len(team) is an exception cutting the loop short.
BattleFinished(b, n) ==
    /\ pc = "idle"
    /\ n \in 0..Len(b.opponent_team)
    /\ series_memory' = update_series_mem_from_battle(series_memory, b, n)
    /\ last_op' = [op |-> "finished", key |-> OppKey(b), team |-> b.opponent_team]
    /\ UNCHANGED <<pc, battle, prefer_target_slot, me_list, opp_list, orders, cands,
                   best, result>>

-----------------------------------------------------------------------------
\* The snapshots the client hands over, and the specifications.

MaxMoves == 2

\* The move set each pokemon of MonData carries, in the order the client lists it.
Moveset(mon) ==
    CASE mon = "snorlax" -> <<"earthquake", "hyperbeam", "protect", "hypervoice">>
      [] mon = "rotom"   -> <<"thunderbolt", "discharge", "shadowball", "protect">>
      [] mon \in StagedIds ->
            <<"swordsdance", "bulkup", "nastyplot", "calmmind", "quiverdance">>
      [] OTHER -> <<>>

RECURSIVE Pick(_, _, _)
Pick(ms, i, idx) ==
    IF i > Len(ms) THEN <<>>
    ELSE (IF i \in idx THEN <<ms[i]>> ELSE <<>>) \o Pick(ms, i + 1, idx)

\* The legal-move lists of a slot: the moves of the move set that are usable this
\* turn, in move-set order, at most MaxMoves of them; none for an absent combatant.
MoveLists(mon) ==
    {Pick(Moveset(mon), 1, idx) :
        idx \in {x \in SUBSET (1..Len(Moveset(mon))) : Cardinality(x) <= MaxMoves}}

\* Turn snapshots; the two active combatants of the agent are different objects.
TurnSnapshots(users, mine, theirs) ==
    LET Actives == {<<a0, a1>> \in (mine \cup {None}) \X (mine \cup {None}) :
                        a0 = None \/ a0 # a1}
    IN UNION {{[opponent_username |-> u, active_pokemon |-> act,
                opponent_active_pokemon |-> <<o1, o2>>, available_moves |-> <<l0, l1>>,
                opponent_team |-> <<>>] :
                  u \in users, o1 \in theirs \cup {None}, o2 \in theirs \cup {None},
                  l0 \in MoveLists(act[1]), l1 \in MoveLists(act[2])} :
              act \in Actives}

\* Finished battles: opponent_team as the sequence of its pokemon's move-id sets.
FinishedSnapshots(users, teams) ==
    {[opponent_username |-> u, active_pokemon |-> <<None, None>>,
      opponent_active_pokemon |-> <<None, None>>, available_moves |-> <<<<>>, <<>>>>,
      opponent_team |-> t] : u \in users, t \in teams}

TurnBattles ==
    TurnSnapshots({"alice"}, {"snorlax", "rotom"}, {"garchomp", "pelipper", "downed"})

FinishedBattles ==
    FinishedSnapshots({"alice"}, {<<{"earthquake", "protect"}>>, <<{"thunderbolt"}>>})

Init ==
    /\ pc = "idle"
    /\ battle = NoBattle
    /\ series_memory = <<>>
    /\ prefer_target_slot = NoSlot
    /\ me_list = <<>>
    /\ opp_list = <<>>
    /\ orders = <<NoOrder, NoOrder>>
    /\ cands = <<<<>>, <<>>>>
    /\ best = <<NoBest, NoBest>>
    /\ result = NoResult
    /\ last_op = [op |-> "init", key |-> None, team |-> <<>>]

Next ==
    \/ \E b \in TurnBattles : Begin(b)
    \/ Slot0
    \/ Slot1
    \/ Ensure
    \/ Raise
    \/ Return
    \/ \E b \in FinishedBattles : \E n \in 0..Len(b.opponent_team) : BattleFinished(b, n)

Spec == Init /\ [][Next]_vars

\* The same engine driven through battles against several opponent identities,
\* one of them without a user name, whose rosters show protection moves,
\* speed-control moves, both or neither.
MemTurnBattles ==
    {b \in TurnSnapshots({None, "alice", "bob"}, {"snorlax"}, {"garchomp"}) :
        /\ b.active_pokemon[1] # None
        /\ b.opponent_active_pokemon[1] # None
        /\ Len(b.available_moves[1]) = 1}

MemFinishedBattles ==
    FinishedSnapshots({None, "alice", "bob"},
                      {<<>>, <<{"earthquake"}>>, <<{}, {"protect", "earthquake"}>>,
                       <<{"tailwind"}, {"thunderbolt"}>>, <<{"detect"}, {"icywind"}>>})

NextMem ==
    \/ \E b \in MemTurnBattles : Begin(b)
    \/ Slot0
    \/ Slot1
    \/ Ensure
    \/ Raise
    \/ Return
    \/ \E b \in MemFinishedBattles : \E n \in 0..Len(b.opponent_team) : BattleFinished(b, n)

SpecMem == Init /\ [][NextMem]_vars

\* The same engine with a setup user at every pair of attack and special-attack
\* stages in slot 0, one legal move per slot, beside snorlax and facing garchomp.
SetupTurnBattles ==
    {[opponent_username |-> "alice", active_pokemon |-> <<me, "snorlax">>,
      opponent_active_pokemon |-> <<"garchomp", o2>>,
      available_moves |-> <<l0, l1>>, opponent_team |-> <<>>] :
        me \in StagedIds, o2 \in {None, "pelipper"},
        l0 \in {l \in MoveLists(StagedId(0, 0)) : Len(l) = 1},
        l1 \in {<<"protect">>, <<"hyperbeam">>}}

NextSetup ==
    \/ \E b \in SetupTurnBattles : Begin(b)
    \/ Slot0
    \/ Slot1
    \/ Ensure
    \/ Raise
    \/ Return
    \/ \E b \in FinishedBattles : \E n \in 0..Len(b.opponent_team) : BattleFinished(b, n)

SpecSetup == Init /\ [][NextSetup]_vars

-----------------------------------------------------------------------------
\* Vocabulary of the properties.

Blocks == 1..2

\* Block k of the running choose_move has called _best_move_and_target.
Evaluated(k) == best[k] # NoBest

\* The legal moves of the combatant block k decides.
OwnMoves(k) == moves_for_slot(battle, slot_index(battle, me_list[k]))

\* The ally handed to block k.
AllyOf(k) == IF Len(me_list) > 1 THEN me_list[3 - k] ELSE None

LiveOpps == SelectSeq(opp_list, IsLive)

OppAt(r) == battle.opponent_active_pokemon[r]

\* The opposing slots that hold a live combatant, in slot order.
LiveSlots ==
    (IF IsLive(OppAt(1)) THEN <<1>> ELSE <<>>) \o (IF IsLive(OppAt(2)) THEN <<2>> ELSE <<>>)

InSeq(x, seq) == \E i \in DOMAIN seq : seq[i] = x

IndexOf(x, seq) == CHOOSE i \in DOMAIN seq : seq[i] = x

-----------------------------------------------------------------------------
\* C1: every invocation of choose_move ends with exactly one turn order, either
\* a double order made of two non-empty per-slot orders or the random choice;
\* an exception raised during the evaluation ends in the random choice, and no
\* order exists before the invocation returns.
C1_OneOrderNoException ==
    /\ pc = "done" =>
         \/ result = RandomResult
         \/ /\ result.kind = "double"
            /\ result.first # NoOrder /\ result.second # NoOrder
            /\ result.first = orders[1] /\ result.second = orders[2]
            /\ InSeq(result.first.move, battle.available_moves[1])
            /\ InSeq(result.second.move, battle.available_moves[2])
    /\ pc # "done" => result = NoResult
    /\ (pc = "done" /\ last_op.op = "raise") => result = RandomResult
    /\ (pc = "done" /\ battle.active_pokemon = <<None, None>>) => result = RandomResult

\* An exception was raised in a turn with two combatants, legal moves and opponents.
C1_Witness ==
    /\ pc = "done" /\ last_op.op = "raise" /\ result = RandomResult
    /\ battle.active_pokemon = <<"snorlax", "rotom">>
    /\ battle.available_moves[1] # <<>> /\ battle.available_moves[2] # <<>>
    /\ IsLive(OppAt(1)) /\ IsLive(OppAt(2))

-----------------------------------------------------------------------------
\* C2: in every double order returned, each per-slot order whose move requires
\* an explicit target carries an opposing target slot in {1, 2}, on the fallback
\* path as well.
C2_ExplicitTargetCarried ==
    (pc = "done" /\ result.kind = "double") =>
        \A o \in {result.first, result.second} :
            requires_explicit_target(o.move) => o.target \in {1, 2}

-----------------------------------------------------------------------------
\* C3: an order bound to target slot t aims at a live combatant in opposing slot
\* t, and that combatant is the one the chosen candidate was scored against.
C3_TargetIsScoredOpponent ==
    \A k \in Blocks :
        (Evaluated(k) /\ orders[k].target \in {1, 2}) =>
            /\ IsLive(OppAt(orders[k].target))
            /\ LiveSlots[best[k].ps] = orders[k].target

-----------------------------------------------------------------------------
\* C4: with exactly one of the agent's slots occupied, the returned order carries
\* the scored decision (best candidate, else attack fallback) of the present
\* combatant, taken from its own slot's legal moves: the turn is not random.

OnePresent ==
    (battle.active_pokemon[1] = None) # (battle.active_pokemon[2] = None)

PresentMon ==
    IF battle.active_pokemon[1] # None THEN battle.active_pokemon[1]
    ELSE battle.active_pokemon[2]

\* The decision of combatant me deciding alone: its best candidate, else the
\* attack fallback over its own legal moves.
OwnDecision(me, bst) ==
    IF bst.m # None
    THEN IF requires_explicit_target(bst.m) /\ bst.ps \in {1, 2}
         THEN Order(bst.m, bst.ps) ELSE create_order(bst.m)
    ELSE FallbackOrder(FallbackMove(moves_for_slot(battle, slot_index(battle, me))))

CarriesDecision(ord) ==
    ord # NoOrder => (result.kind = "double" /\ ord \in {result.first, result.second})

C4_LoneCombatantDecides ==
    (pc = "done" /\ last_op.op # "raise" /\ OnePresent) =>
        CarriesDecision(OwnDecision(PresentMon,
            best_move_and_target(battle, PresentMon, opp_list, Mem, None, NoSlot)))

-----------------------------------------------------------------------------
\* C5: a profile is created on first reference, with both flags false when
\* choose_move creates it; a flag changes only in the end-of-battle callback of its
\* own identity, to true, and only when that opponent's roster holds a protection
\* (resp. speed-control) move; a true flag stays true; no operation changes the
\* profile of another identity.

RosterHas(team, ids) == \E i \in DOMAIN team : team[i] \cap ids # {}

FlagStep(before, after, team, ids) ==
    /\ before => after
    /\ (after /\ ~before) => (last_op'.op = "finished" /\ RosterHas(team, ids))

C5_Step ==
    /\ DOMAIN series_memory \subseteq DOMAIN series_memory'
    /\ \A k \in DOMAIN series_memory' \ DOMAIN series_memory :
          /\ last_op'.key = k /\ last_op'.op \in {"choose_move", "finished"}
          /\ last_op'.op = "choose_move" => series_memory'[k] = NewMem
          /\ FlagStep(FALSE, series_memory'[k].protect, last_op'.team, PROTECT_IDS)
          /\ FlagStep(FALSE, series_memory'[k].speed_ctrl, last_op'.team, SPEED_CTRL)
    /\ \A k \in DOMAIN series_memory :
          /\ series_memory'[k] # series_memory[k] => last_op'.key = k
          /\ FlagStep(series_memory[k].protect, series_memory'[k].protect,
                      last_op'.team, PROTECT_IDS)
          /\ FlagStep(series_memory[k].speed_ctrl, series_memory'[k].speed_ctrl,
                      last_op'.team, SPEED_CTRL)

C5_ProfilesMonotone == [][C5_Step]_vars

\* A callback of one identity has just run on a roster without protection moves
\* while that identity's protection flag, set by an earlier battle, is still true
\* and another identity's profile exists with its flags unset.
C5_Witness ==
    /\ last_op.op = "finished" /\ last_op.key = "alice"
    /\ ~RosterHas(last_op.team, PROTECT_IDS)
    /\ "alice" \in DOMAIN series_memory /\ series_memory["alice"].protect
    /\ "bob" \in DOMAIN series_memory /\ series_memory["bob"] = NewMem

-----------------------------------------------------------------------------
\* C6: a block whose candidate list is empty emits the first legal move of its
\* combatant with positive base power that is not a spread move, else the first
\* legal move with positive base power, else returns the random choice for the turn.
C6_Chain(k, single, attack) ==
    IF single # <<>> THEN orders[k] = create_order(Head(single))
    ELSE IF attack # <<>> THEN orders[k] = create_order(Head(attack))
    ELSE orders[k] = NoOrder /\ pc = "done" /\ result = RandomResult

C6_FallbackChain ==
    \A k \in Blocks :
        (Evaluated(k) /\ cands[k] = <<>>) =>
            C6_Chain(k, SelectSeq(OwnMoves(k), IsSingleAttack), SelectSeq(OwnMoves(k), IsAttack))

-----------------------------------------------------------------------------
\* C7: every candidate has a strictly positive score; a damaging non-spread move
\* never appears paired with the target slot of a live opponent it has
\* effectiveness 0 against; an opponent with effectiveness 0 adds nothing to a
\* spread move's aggregate, and a spread move that hits no opponent is no candidate.

Immune(m, o) == eff(MoveData[m].type, o).n = 0

\* The sum of the per-target parts over the opponents of live that m can hit.
RECURSIVE HitTotal(_, _, _)
HitTotal(m, me, live) ==
    IF live = <<>> THEN RZero
    ELSE IF Immune(m, Head(live)) THEN HitTotal(m, me, Tail(live))
    ELSE RAdd(SpreadPart(m, me, Head(live)), HitTotal(m, me, Tail(live)))

HasCand(cs, m, ps) == \E i \in DOMAIN cs : cs[i].m = m /\ cs[i].ps = ps

C7_Single(k, m) ==
    (~is_spread(m) /\ MoveData[m].base_power > 0) =>
        /\ \A r \in 1..2 :
              (IsLive(OppAt(r)) /\ Immune(m, OppAt(r))) => ~HasCand(cands[k], m, r)
        /\ \A i \in DOMAIN LiveOpps :
              Immune(m, LiveOpps[i]) => ~HasCand(cands[k], m, i)

C7_SpreadScore(c, total) ==
    c.s \in {total, RMul(total, Rat(1, 5))}

C7_Spread(k, m) ==
    is_spread(m) =>
        /\ (\A i \in DOMAIN LiveOpps : Immune(m, LiveOpps[i])) => ~HasCand(cands[k], m, 0)
        /\ \A i \in DOMAIN cands[k] :
              cands[k][i].m = m =>
                  C7_SpreadScore(cands[k][i],
                      RMul(RMul(HitTotal(m, me_list[k], LiveOpps), SPREAD_DAMAGE_MOD),
                           Rat(103, 100)))

C7_CandidatesPositive ==
    \A k \in Blocks :
        Evaluated(k) =>
            /\ \A i \in DOMAIN cands[k] : RPos(cands[k][i].s)
            /\ \A j \in DOMAIN OwnMoves(k) :
                  C7_Single(k, OwnMoves(k)[j]) /\ C7_Spread(k, OwnMoves(k)[j])

\* A block built a candidate list while one of its damaging single-target moves is
\* immune against a live opponent and one of its spread moves hits one opponent only.
C7_Witness ==
    \E k \in Blocks :
        /\ Evaluated(k) /\ Len(cands[k]) >= 2 /\ Len(LiveOpps) = 2
        /\ \E j \in DOMAIN OwnMoves(k) :
              /\ ~is_spread(OwnMoves(k)[j]) /\ MoveData[OwnMoves(k)[j]].base_power > 0
              /\ \E i \in DOMAIN LiveOpps : Immune(OwnMoves(k)[j], LiveOpps[i])
        /\ \E j \in DOMAIN OwnMoves(k) :
              /\ is_spread(OwnMoves(k)[j]) /\ HasCand(cands[k], OwnMoves(k)[j], 0)
              /\ \E i \in DOMAIN LiveOpps : Immune(OwnMoves(k)[j], LiveOpps[i])

-----------------------------------------------------------------------------
\* C8: slot 0 is decided before slot 1, and slot 1's candidate list is its
\* unbiased list with the score of exactly the single-target candidates aiming at
\* the target slot 0 committed to in this invocation multiplied by 1.20; when slot
\* 0 emitted no explicit target no candidate is biased, whatever was committed to
\* in an earlier invocation.

\* The target the slot 0 block committed to in this invocation.
Committed == IF orders[1].target \in {1, 2} THEN orders[1].target ELSE NoSlot

C8_Biased(c, base) ==
    /\ c.m = base.m /\ c.ps = base.ps /\ c.why = base.why
    /\ c.s = IF c.why = "single" /\ Committed # NoSlot /\ c.ps = Committed
             THEN RMul(base.s, Rat(120, 100)) ELSE base.s

C8_SameList(cs, base) ==
    /\ Len(cs) = Len(base)
    /\ \A i \in DOMAIN cs : i \in DOMAIN base /\ C8_Biased(cs[i], base[i])

C8_FocusFollowsSlot0 ==
    /\ pc = "slot0" => (~Evaluated(1) /\ ~Evaluated(2))
    /\ Evaluated(2) =>
          /\ Evaluated(1)
          /\ C8_SameList(cands[2],
                 candidates(battle, me_list[2], opp_list, Mem, me_list[1], NoSlot))

\* Slot 0 committed to opposing slot 2 and slot 1 then weighed candidates aiming
\* at slot 2 and candidates aiming at slot 1.
C8_Witness ==
    /\ pc = "ensure" /\ orders[1].target = 2
    /\ \E i \in DOMAIN cands[2] : cands[2][i].ps = 2 /\ cands[2][i].why = "single"
    /\ \E i \in DOMAIN cands[2] : cands[2][i].ps = 1 /\ cands[2][i].why = "single"

-----------------------------------------------------------------------------
\* C9: for a spread candidate whose move is in the friendly-fire set, with an ally
\* present, the score is 0.20 times the unpenalised aggregate
\* (0.75 * 1.03 * the sum of the per-target parts) exactly when the ally safety
\* oracle deems the ally not safe, and the unpenalised aggregate otherwise; with no
\* ally, or a move outside the set, it is the unpenalised aggregate.

Unpenalised(m, me) ==
    RMul(RMul(SpreadTotal(m, me, LiveOpps), Rat(75, 100)), Rat(103, 100))

C9_Score(c, ally, total) ==
    /\ RPos(total)
    /\ IF Lower(c.m) \in AOE_FRIENDLY_FIRE /\ ally # None
       THEN /\ (c.s = RMul(total, Rat(20, 100))) <=> ~ally_safe_for_aoe(c.m, MoveData[c.m].type, ally)
            /\ (c.s = total) <=> ally_safe_for_aoe(c.m, MoveData[c.m].type, ally)
       ELSE c.s = total

C9_FriendlyFirePenalty ==
    \A k \in Blocks :
        Evaluated(k) =>
            \A i \in DOMAIN cands[k] :
                cands[k][i].why = "spread" =>
                    C9_Score(cands[k][i], AllyOf(k), Unpenalised(cands[k][i].m, me_list[k]))

\* One block weighed a friendly-fire spread move beside an ally the oracle deems
\* not safe, the other block one beside an ally it deems safe.
C9_Witness ==
    /\ Evaluated(1) /\ Evaluated(2)
    /\ \E k \in Blocks : \E i \in DOMAIN cands[k] :
          /\ cands[k][i].why = "spread" /\ Lower(cands[k][i].m) \in AOE_FRIENDLY_FIRE
          /\ ~ally_safe_for_aoe(cands[k][i].m, MoveData[cands[k][i].m].type, AllyOf(k))
    /\ \E k \in Blocks : \E i \in DOMAIN cands[k] :
          /\ cands[k][i].why = "spread" /\ Lower(cands[k][i].m) \in AOE_FRIENDLY_FIRE
          /\ ally_safe_for_aoe(cands[k][i].m, MoveData[cands[k][i].m].type, AllyOf(k))

-----------------------------------------------------------------------------
\* C10: the candidate returned for a non-empty list has a score at least every
\* other candidate's, and is the first built among those with the maximal score;
\* the list is built spread moves first in legal-move order, then the other moves
\* in legal-move order with target 1 before target 2.

\* The position of a candidate in the build order.
BuildRank(c, moves) ==
    (IF c.why = "spread" THEN 0 ELSE 100) + 10 * IndexOf(c.m, moves) + c.ps

C10_Built(cs, moves) ==
    \A i, j \in DOMAIN cs : i < j => BuildRank(cs[i], moves) < BuildRank(cs[j], moves)

C10_FirstMax(cs, b) ==
    \E i \in DOMAIN cs :
        /\ b = cs[i]
        /\ \A j \in DOMAIN cs : RGe(b.s, cs[j].s)
        /\ \A j \in 1..(i - 1) : RGt(b.s, cs[j].s)

C10_BestIsFirstMax ==
    \A k \in Blocks :
        (Evaluated(k) /\ cands[k] # <<>>) =>
            C10_FirstMax(cands[k], best[k]) /\ C10_Built(cands[k], OwnMoves(k))

\* A block chose among candidates two of which share the maximal score.
C10_Witness ==
    \E k \in Blocks :
        /\ Evaluated(k)
        /\ \E i, j \in DOMAIN cands[k] :
              i < j /\ cands[k][i].s = best[k].s /\ cands[k][j].s = best[k].s

-----------------------------------------------------------------------------
\* C11: for every stat-raising setup move without base power and every stage s
\* from -6 to +6 of its relevant stat (attack for swordsdance and bulkup,
\* special attack for nastyplot, calmmind and quiverdance), the single-target
\* score is 26 + 1.5 * (6 - s), and so exactly 26 at the cap.

IsSetup(m) == MoveData[m].base_power = 0 /\ Lower(m) \in SETUP_IDS

RelevantStage(m, me) ==
    IF Lower(m) \in {"swordsdance", "bulkup"} THEN MonData[me].atk ELSE MonData[me].spa

C11_SetupScore ==
    Evaluated(1) =>
        \A i \in DOMAIN cands[1] :
            IsSetup(cands[1][i].m) =>
                cands[1][i].s =
                    RAdd(RInt(26),
                         RMul(Rat(3, 2), RInt(6 - RelevantStage(cands[1][i].m, me_list[1]))))

\* Slot 0 weighed swordsdance for a setup user at attack stage 0 and scored it 26.
C11_Witness ==
    /\ Evaluated(1)
    /\ me_list[1] \in StagedIds /\ MonData[me_list[1]].atk = 0
    /\ HasCand(cands[1], "swordsdance", 1)
    /\ \A i \in DOMAIN cands[1] : cands[1][i].s = RInt(26)

=============================================================================
